---- MODULE Spec2Model ----
(***************************************************************************)
(* A model of SystemMetricsMonitor (MonitoringApiServer.py): the five      *)
(* probes, collect_metrics, send_metrics and the run loop.                 *)
(*                                                                         *)
(* Text is a sequence of tokens.  A token is one character ("7", ".",      *)
(* " ", "\n") or a character group the code treats as a unit ("time=",     *)
(* "Time=", "zeit=", "ms", and "x" for any other text).                    *)
(***************************************************************************)
EXTENDS Integers, Sequences, FiniteSets, TLC

\* ------------------------------------------------------------------ bounds

MaxTicks == 3
MaxOut == 4

\* ------------------------------------------------------ program constants

DefaultInterval == 5
CpuWindow == 1
GpuTimeout == 2
PingTimeout == 5
ConnectTimeout == 3
PostTimeout == 10

\* ------------------------------------------------------------------ state

VARIABLES
  api_url,      \* self.api_url
  interval,     \* self.interval
  host_system,  \* what platform.system() answers on this host
  pc,           \* where run is: Idle, Sampling, Sending, Waiting, Stopped, Crashed
  probe_pc,     \* the entry of the metrics dict collect_metrics evaluates next
  building,     \* the values collect_metrics has evaluated so far
  metrics,      \* run's local variable metrics
  probe_calls,  \* calls of each probe made by the current collect_metrics
  obs,          \* what each outside facility answered in the current tick
  elapsed,      \* seconds the current tick has spent in its probes and its send
  sleep_for,    \* the argument of the last time.sleep
  collects,     \* completed calls of collect_metrics
  sends,        \* completed calls of send_metrics
  sleeps,       \* completed calls of time.sleep
  posts,        \* calls of requests.post made in the current tick
  posted,       \* the json= argument of the last requests.post
  send_result,  \* what the last send_metrics returned
  sig_at,       \* where a KeyboardInterrupt was raised, "-" if none was
  run_exit,     \* running, returned, or the exception that left run
  ref,          \* an earlier tick, remembered: its observations and snapshot
  fn_in,        \* a probe called on its own: the facility's answer
  fn_out        \* ... and what the probe did

vars ==
  <<api_url, interval, host_system, pc, probe_pc, building, metrics, probe_calls,
    obs, elapsed, sleep_for, collects, sends, sleeps, posts, posted,
    send_result, sig_at, run_exit, ref, fn_in, fn_out>>

\* ---------------------------------------------------------- Python values

None == [t |-> "None", m |-> 0, e |-> 0]

\* The float m / 10^e.
Num(m, e) == [t |-> "float", m |-> m, e |-> e]

Return(v) == [kind |-> "return", val |-> v, exc |-> "-"]

Raise(x) == [kind |-> "raise", val |-> None, exc |-> x]

\* The classes an exception is an instance of.
Ancestors(x) ==
  CASE x = "KeyboardInterrupt" -> {"KeyboardInterrupt", "BaseException"}
    [] x = "ValueError"        -> {"ValueError", "Exception", "BaseException"}
    [] x = "psutil.Error"      -> {"psutil.Error", "Exception", "BaseException"}
    [] x = "OSError"           -> {"OSError", "Exception", "BaseException"}
    [] x = "FileNotFoundError" ->
         {"FileNotFoundError", "OSError", "Exception", "BaseException"}
    [] x = "TimeoutExpired"    ->
         {"TimeoutExpired", "SubprocessError", "Exception", "BaseException"}
    [] x \in {"ConnectionError", "Timeout", "HTTPError"} ->
         {x, "RequestException", "OSError", "Exception", "BaseException"}
    [] OTHER                   -> {x, "BaseException"}

\* except cls: catches x
Catches(cls, x) == cls \in Ancestors(x)

\* ------------------------------------------------------------------- text

Whitespace == {" ", "\n"}

Digits == {"7"}

RECURSIVE LStrip(_)
LStrip(s) ==
  IF s # <<>> /\ Head(s) \in Whitespace THEN LStrip(Tail(s)) ELSE s

RECURSIVE RStrip(_)
RStrip(s) ==
  IF s # <<>> /\ s[Len(s)] \in Whitespace
    THEN RStrip(SubSeq(s, 1, Len(s) - 1))
    ELSE s

\* str.strip()
Strip(s) == RStrip(LStrip(s))

LowerTok(c) == IF c = "Time=" THEN "time=" ELSE c

\* str.lower()
Lower(s) == [i \in 1..Len(s) |-> LowerTok(s[i])]

\* sep in s
Contains(s, sep) == \E i \in 1..Len(s) : s[i] = sep

\* s.split(sep): the pieces between the occurrences of sep.
RECURSIVE SplitFrom(_, _, _)
SplitFrom(s, sep, cur) ==
  IF s = <<>> THEN <<cur>>
  ELSE IF Head(s) = sep THEN <<cur>> \o SplitFrom(Tail(s), sep, <<>>)
  ELSE SplitFrom(Tail(s), sep, Append(cur, Head(s)))

Split(s, sep) == SplitFrom(s, sep, <<>>)

RECURSIVE DigitsValue(_)
DigitsValue(s) ==
  IF s = <<>> THEN 0 ELSE 10 * DigitsValue(SubSeq(s, 1, Len(s) - 1)) + 7

AllDigits(s) == \A i \in 1..Len(s) : s[i] \in Digits

\* float(s): surrounding whitespace is ignored; digits with at most one "."
\* and at least one digit are a number, anything else is a ValueError.
Float(s) ==
  LET u == Strip(s)
      parts == Split(u, ".")
  IN  IF Len(parts) = 1 /\ u # <<>> /\ AllDigits(u)
        THEN Return(Num(DigitsValue(u), 0))
      ELSE IF Len(parts) = 2 /\ AllDigits(parts[1]) /\ AllDigits(parts[2])
              /\ Len(parts[1]) + Len(parts[2]) > 0
        THEN Return(Num(DigitsValue(parts[1] \o parts[2]), Len(parts[2])))
      ELSE Raise("ValueError")

\* ---------------------------------------------------------- the snapshot

\* The dict with internet_connected taken from the ping probe.
SnapshotWrongField(b) ==
  [timestamp |-> b.timestamp,
   cpu_percent |-> b.cpu,
   gpu_percent |-> b.gpu,
   ram |-> b.ram,
   ping_ms |-> b.ping,
   internet_connected |-> b.ping]

\* The dict collect_metrics returns.
Snapshot(b) ==
  [timestamp |-> b.timestamp,
   cpu_percent |-> b.cpu,
   gpu_percent |-> b.gpu,
   ram |-> b.ram,
   ping_ms |-> b.ping,
   internet_connected |-> b.net]

\* An entry of the dict that is not evaluated yet.
Unset == [t |-> "unset", m |-> 0, e |-> 0]

NoValues ==
  [timestamp |-> 0, cpu |-> Unset, gpu |-> Unset, ram |-> Unset,
   ping |-> Unset, net |-> Unset]

\* ------------------------------------------------ the outside facilities

Bool(b) == [t |-> "bool", m |-> IF b THEN 1 ELSE 0, e |-> 0]

\* subprocess.run: a CompletedProcess, or the exception it raised.
Completed(rc, out) ==
  [kind |-> "return", exc |-> "-", returncode |-> rc, stdout |-> out]

Failed(x) == [kind |-> "raise", exc |-> x, returncode |-> 0, stdout |-> <<>>]

\* psutil.virtual_memory(): sizes in MiB, percent in tenths.
Mem(total, used, available, percent) ==
  [t |-> "svmem", total |-> total, used |-> used, available |-> available,
   percent |-> percent]

\* try: body / except cls: (falls through to) fallback
TryExcept(body, cls, fallback) ==
  IF body.kind = "raise" /\ Catches(cls, body.exc) THEN fallback ELSE body

\* ----------------------------------------------------------------- probes

get_cpu_usage(sample) == sample

\* get_gpu_usage with "except:" in place of "except Exception:".
get_gpu_usage_bare(system, tool) ==
  LET body ==
        IF system = "Windows" \/ system = "Linux"
          THEN IF tool.kind = "raise" THEN Raise(tool.exc)
               ELSE IF tool.returncode = 0 THEN Float(Strip(tool.stdout))
               ELSE Return(None)
          ELSE Return(None)
  IN  TryExcept(body, "BaseException", Return(None))

\* get_gpu_usage with "return 0.0" in place of "return None".
get_gpu_usage_zero(system, tool) ==
  LET body ==
        IF system = "Windows" \/ system = "Linux"
          THEN IF tool.kind = "raise" THEN Raise(tool.exc)
               ELSE IF tool.returncode = 0 THEN Float(Strip(tool.stdout))
               ELSE Return(Num(0, 0))
          ELSE Return(Num(0, 0))
  IN  TryExcept(body, "Exception", Return(Num(0, 0)))

\* get_gpu_usage that answers the last value it read when the tool fails.
get_gpu_usage_stale(system, tool) ==
  LET last == IF metrics.gpu_percent.t = "float" THEN metrics.gpu_percent ELSE None
      body ==
        IF system = "Windows" \/ system = "Linux"
          THEN IF tool.kind = "raise" THEN Raise(tool.exc)
               ELSE IF tool.returncode = 0 THEN Float(Strip(tool.stdout))
               ELSE Return(last)
          ELSE Return(last)
  IN  TryExcept(body, "Exception", Return(last))

get_gpu_usage(system, tool) ==
  LET body ==
        IF system = "Windows" \/ system = "Linux"
          THEN IF tool.kind = "raise" THEN Raise(tool.exc)
               ELSE IF tool.returncode = 0 THEN Float(Strip(tool.stdout))
               ELSE Return(None)
          ELSE Return(None)
  IN  TryExcept(body, "Exception", Return(None))

\* round(mib / 1024, 2), in hundredths; an exact tie rounds to even.
RoundGb(mib) ==
  LET q == (mib * 100) \div 1024
      r == (mib * 100) % 1024
  IN  IF r > 512 \/ (r = 512 /\ q % 2 = 1) THEN q + 1 ELSE q

get_ram_usage(mem) ==
  IF mem.kind = "raise" THEN mem
  ELSE Return([t |-> "ram",
               percent |-> mem.val.percent,
               total_gb |-> RoundGb(mem.val.total),
               used_gb |-> RoundGb(mem.val.used),
               available_gb |-> RoundGb(mem.val.available)])

Last(s) == s[Len(s)]

\* The first line of lines that has a latency, or <<>>.
RECURSIVE FirstLine(_, _)
FirstLine(lines, windows) ==
  IF lines = <<>> THEN <<>>
  ELSE IF (windows /\ (Contains(Lower(Head(lines)), "time=")
                        \/ Contains(Lower(Head(lines)), "zeit=")))
          \/ (~windows /\ Contains(Head(lines), "time="))
    THEN <<Head(lines)>>
  ELSE FirstLine(Tail(lines), windows)

ParseWindows(line) == Float(Strip(Split(Last(Split(line, "time=")), "ms")[1]))

ParseUnix(line) == Float(Strip(Split(Last(Split(line, "time=")), " ")[1]))

get_ping(system, proc) ==
  LET windows == (system = "Windows")
      found == FirstLine(Split(proc.stdout, "\n"), windows)
      body ==
        IF proc.kind = "raise" THEN Raise(proc.exc)
        ELSE IF found = <<>> THEN Return(None)
        ELSE IF windows THEN ParseWindows(found[1])
        ELSE ParseUnix(found[1])
  IN  TryExcept(body, "Exception", Return(None))

check_internet_connection(conn) ==
  TryExcept(IF conn.kind = "raise" THEN conn ELSE Return(Bool(TRUE)),
            "OSError", Return(Bool(FALSE)))

\* ---------------------------------------------------------- send_metrics

Response(status) ==
  [kind |-> "return", exc |-> "-", status_code |-> status]

NoResponse(x) == [kind |-> "raise", exc |-> x, status_code |-> 0]

\* Response.raise_for_status(): an HTTPError for a 4xx or 5xx status.
raise_for_status(status) ==
  IF 400 <= status /\ status < 600 THEN Raise("HTTPError") ELSE Return(None)

\* send_metrics without its except clause.
send_metrics_uncaught(resp) ==
  IF resp.kind = "raise" THEN Raise(resp.exc)
  ELSE IF raise_for_status(resp.status_code).kind = "raise"
    THEN raise_for_status(resp.status_code)
  ELSE Return(Bool(TRUE))

send_metrics(resp) ==
  LET body ==
        IF resp.kind = "raise" THEN Raise(resp.exc)
        ELSE IF raise_for_status(resp.status_code).kind = "raise"
          THEN raise_for_status(resp.status_code)
        ELSE Return(Bool(TRUE))
  IN  TryExcept(body, "RequestException", Return(Bool(FALSE)))

\* -------------------------------------------------------- collect_metrics

Probes == {"cpu", "gpu", "ram", "ping", "net"}

\* The order in which the dict display evaluates its entries.
NextEntry(p) ==
  CASE p = "timestamp" -> "cpu"
    [] p = "cpu"       -> "gpu"
    [] p = "gpu"       -> "ram"
    [] p = "ram"       -> "ping"
    [] p = "ping"      -> "net"
    [] OTHER           -> "return"

\* ------------------------------------------------- what the host can answer

Urls == {"https://your-website.com/api/metrics"}

Intervals == {2, DefaultInterval}

Systems == {"Windows", "Linux", "Darwin"}

Interrupt == "KeyboardInterrupt"

\* The facility was not asked.
NotAsked == [kind |-> "unasked", exc |-> "-"]

CpuAnswers ==
  {Return(Num(420, 1)), Return(Num(7, 0)), Raise("psutil.Error"),
   Raise(Interrupt)}

GpuAnswers ==
  {Failed("FileNotFoundError"), Failed(Interrupt),
   Completed(0, <<"7", "7", "\n">>), Completed(1, <<"7">>)}

MemAnswers ==
  {Return(Mem(16384, 8192, 8190, 500)), Raise("OSError"), Raise(Interrupt)}

PingAnswers ==
  {Failed("TimeoutExpired"), Failed(Interrupt),
   Completed(0, <<"x", " ", "time=", "7", "7", ".", "7", " ", "ms", "\n">>),
   Completed(1, <<"x", "\n">>)}

NetAnswers == {Return(None), Raise("OSError"), Raise(Interrupt)}

Statuses == {100, 200, 204, 299, 304, 404, 500}

PostAnswers ==
  {Response(st) : st \in Statuses}
    \cup {NoResponse("ConnectionError"), NoResponse("Timeout"),
          NoResponse(Interrupt)}

\* Seconds a facility takes: its timeout when it times out.
Cost(p, answer) ==
  CASE p = "cpu"  -> CpuWindow
    [] p = "gpu"  -> IF answer.exc = "TimeoutExpired" THEN GpuTimeout ELSE 0
    [] p = "ping" -> IF answer.exc = "TimeoutExpired" THEN PingTimeout ELSE 0
    [] p = "net"  -> IF answer.exc = "OSError" THEN ConnectTimeout ELSE 0
    [] p = "post" -> IF answer.exc = "Timeout" THEN PostTimeout ELSE 0
    [] OTHER      -> 0

NoObs ==
  [cpu |-> NotAsked, gpu |-> NotAsked, ram |-> NotAsked, ping |-> NotAsked,
   net |-> NotAsked, post |-> NotAsked]

NoRef == [held |-> FALSE, host |-> NoObs, snap |-> Snapshot(NoValues)]

\* ------------------------------------------------------------------- run

InitRun ==
  /\ api_url \in Urls
  /\ interval \in Intervals
  /\ host_system \in Systems
  /\ pc = "Idle"
  /\ probe_pc = "-"
  /\ building = NoValues
  /\ metrics = Snapshot(NoValues)
  /\ probe_calls = [p \in Probes |-> 0]
  /\ obs = NoObs
  /\ elapsed = 0
  /\ sleep_for = 0
  /\ collects = 0
  /\ sends = 0
  /\ sleeps = 0
  /\ posts = 0
  /\ posted = Snapshot(NoValues)
  /\ send_result = Unset
  /\ sig_at = "-"
  /\ run_exit = "running"
  /\ ref = NoRef

Init == InitRun /\ fn_in = NotAsked /\ fn_out = NotAsked

\* An exception x reaches run's try statement: except KeyboardInterrupt.
Leave(x) ==
  IF Catches("KeyboardInterrupt", x)
    THEN pc' = "Stopped" /\ run_exit' = "returned"
    ELSE pc' = "Crashed" /\ run_exit' = x

\* run without its time.sleep.
AfterSendNoWait == "Sampling"

\* The statement run executes after send_metrics has returned.
AfterSend == "Waiting"

\* run prints its banner and enters the loop; an interrupt before the try
\* statement leaves run.
Enter ==
  /\ pc = "Idle"
  /\ \/ /\ pc' = "Sampling"
        /\ probe_pc' = "timestamp"
        /\ UNCHANGED <<sig_at, run_exit>>
     \/ /\ pc' = "Crashed"
        /\ run_exit' = Interrupt
        /\ sig_at' = "Idle"
        /\ UNCHANGED probe_pc
  /\ UNCHANGED <<api_url, interval, host_system, building, metrics,
                 probe_calls, obs, elapsed, sleep_for, collects, sends,
                 sleeps, posts, posted, send_result, ref, fn_in, fn_out>>

\* collect_metrics is called and reads the clock.
Timestamp ==
  /\ pc = "Sampling"
  /\ probe_pc = "timestamp"
  /\ collects < MaxTicks
  /\ building' = [NoValues EXCEPT !.timestamp = collects + 1]
  /\ probe_calls' = [p \in Probes |-> 0]
  /\ obs' = NoObs
  /\ elapsed' = 0
  /\ posts' = 0
  /\ send_result' = Unset
  /\ probe_pc' = NextEntry(probe_pc)
  /\ UNCHANGED <<api_url, interval, host_system, pc, metrics, sleep_for,
                 collects, sends, sleeps, posted, sig_at, run_exit, ref,
                 fn_in, fn_out>>

\* Probe p is called; the facility answers; the probe returns r or raises.
ProbeStep(p, answer, r) ==
  /\ pc = "Sampling"
  /\ probe_pc = p
  /\ probe_calls' = [probe_calls EXCEPT ![p] = @ + 1]
  /\ obs' = [obs EXCEPT ![p] = answer]
  /\ elapsed' = elapsed + Cost(p, answer)
  /\ sig_at' = IF answer.exc = Interrupt THEN p ELSE sig_at
  /\ IF r.kind = "return"
       THEN /\ building' = [building EXCEPT ![p] = r.val]
            /\ probe_pc' = NextEntry(p)
            /\ UNCHANGED <<pc, run_exit>>
       ELSE /\ Leave(r.exc)
            /\ UNCHANGED <<building, probe_pc>>
  /\ UNCHANGED <<api_url, interval, host_system, metrics, sleep_for,
                 collects, sends, sleeps, posts, posted, send_result, ref,
                 fn_in, fn_out>>

ProbeCpu == \E a \in CpuAnswers : ProbeStep("cpu", a, get_cpu_usage(a))

\* nvidia-smi is run on Windows and Linux only.
GpuAsked(sys) == IF sys = "Windows" \/ sys = "Linux" THEN GpuAnswers ELSE {NotAsked}

ProbeGpu ==
  \E a \in GpuAsked(host_system) :
    ProbeStep("gpu", a, get_gpu_usage(host_system, a))

ProbeRam == \E a \in MemAnswers : ProbeStep("ram", a, get_ram_usage(a))

ProbePing == \E a \in PingAnswers : ProbeStep("ping", a, get_ping(host_system, a))

ProbeNet ==
  \E a \in NetAnswers : ProbeStep("net", a, check_internet_connection(a))

\* collect_metrics returns the dict; run binds it to metrics and prints it.
Assemble ==
  /\ pc = "Sampling"
  /\ probe_pc = "return"
  /\ metrics' = Snapshot(building)
  /\ collects' = collects + 1
  /\ pc' = "Sending"
  /\ probe_pc' = "-"
  /\ UNCHANGED <<api_url, interval, host_system, building, probe_calls, obs,
                 elapsed, sleep_for, sends, sleeps, posts, posted,
                 send_result, sig_at, run_exit, ref, fn_in, fn_out>>

\* send_metrics(metrics): one requests.post, then the result or an exception.
Send ==
  /\ pc = "Sending"
  /\ \E a \in PostAnswers :
       LET r == send_metrics(a)
       IN  /\ posts' = posts + 1
           /\ posted' = metrics
           /\ obs' = [obs EXCEPT !.post = a]
           /\ elapsed' = elapsed + Cost("post", a)
           /\ sig_at' = IF a.exc = Interrupt THEN "Sending" ELSE sig_at
           /\ IF r.kind = "return"
                THEN /\ send_result' = r.val
                     /\ sends' = sends + 1
                     /\ pc' = AfterSend
                     /\ probe_pc' = IF AfterSend = "Sampling" THEN "timestamp" ELSE "-"
                     /\ sleep_for' = IF AfterSend = "Waiting" THEN interval ELSE sleep_for
                     /\ UNCHANGED run_exit
                ELSE /\ Leave(r.exc)
                     /\ UNCHANGED <<send_result, sends, sleep_for, probe_pc>>
  /\ UNCHANGED <<api_url, interval, host_system, building, metrics,
                 probe_calls, collects, sleeps, ref, fn_in, fn_out>>

\* time.sleep(self.interval) returns, or is interrupted.
Sleep ==
  /\ pc = "Waiting"
  /\ \/ /\ pc' = "Sampling"
        /\ probe_pc' = "timestamp"
        /\ sleeps' = sleeps + 1
        /\ UNCHANGED <<sig_at, run_exit>>
     \/ /\ Leave(Interrupt)
        /\ sig_at' = "Waiting"
        /\ UNCHANGED <<probe_pc, sleeps>>
  /\ UNCHANGED <<api_url, interval, host_system, building, metrics,
                 probe_calls, obs, elapsed, sleep_for, collects, sends,
                 posts, posted, send_result, ref, fn_in, fn_out>>

Next ==
  \/ Enter
  \/ Timestamp
  \/ ProbeCpu
  \/ ProbeGpu
  \/ ProbeRam
  \/ ProbePing
  \/ ProbeNet
  \/ Assemble
  \/ Send
  \/ Sleep

Spec == Init /\ [][Next]_vars

\* --------------------------------------------- two ticks of one run compared

\* The observer remembers the tick whose snapshot was just assembled.
Remember ==
  /\ pc = "Sending"
  /\ posts = 0
  /\ ~ref.held
  /\ ref' = [held |-> TRUE, host |-> obs, snap |-> metrics]
  /\ UNCHANGED <<api_url, interval, host_system, pc, probe_pc, building,
                 metrics, probe_calls, obs, elapsed, sleep_for, collects,
                 sends, sleeps, posts, posted, send_result, sig_at, run_exit,
                 fn_in, fn_out>>

InitIdem == Init /\ interval = DefaultInterval

NextIdem == Next \/ Remember

SpecIdem == InitIdem /\ [][NextIdem]_vars

\* -------------------------------------------------- a probe called on its own

RECURSIVE Texts(_, _)
Texts(alphabet, n) ==
  IF n = 0 THEN {<<>>}
  ELSE LET shorter == Texts(alphabet, n - 1)
       IN  shorter \cup {Append(u, c) : u \in shorter, c \in alphabet}

GpuAlphabet == {"7", ".", " ", "\n", "x"}

PingAlphabet == {"time=", "Time=", "zeit=", "7", ".", " ", "ms", "\n", "x"}

ToolAnswers(alphabet) ==
  {Failed("FileNotFoundError"), Failed("TimeoutExpired"), Failed(Interrupt)}
    \cup {Completed(rc, out) : rc \in {0, 1}, out \in Texts(alphabet, MaxOut)}

UnchangedRun ==
  UNCHANGED <<api_url, interval, host_system, pc, probe_pc, building,
              metrics, probe_calls, obs, elapsed, sleep_for, collects, sends,
              sleeps, posts, posted, send_result, sig_at, run_exit, ref>>

InitGpu ==
  /\ InitRun
  /\ interval = DefaultInterval
  /\ fn_in \in ToolAnswers(GpuAlphabet)
  /\ fn_out = NotAsked

CallGpu ==
  /\ fn_out = NotAsked
  /\ fn_out' = get_gpu_usage(host_system, fn_in)
  /\ UNCHANGED fn_in
  /\ UnchangedRun

SpecGpu == InitGpu /\ [][CallGpu]_vars

InitPing ==
  /\ InitRun
  /\ interval = DefaultInterval
  /\ fn_in \in ToolAnswers(PingAlphabet)
  /\ fn_out = NotAsked

CallPing ==
  /\ fn_out = NotAsked
  /\ fn_out' = get_ping(host_system, fn_in)
  /\ UNCHANGED fn_in
  /\ UnchangedRun

SpecPing == InitPing /\ [][CallPing]_vars

\* ================================================================= claims

Max(a, b) == IF a >= b THEN a ELSE b

Absent(p) == IF p = "net" THEN Bool(FALSE) ELSE None

\* Facility p raised an error (not an interrupt) in the current tick.
FacilityFailed(p) == obs[p].kind = "raise" /\ obs[p].exc # Interrupt

\* The POST of the current tick failed: no connection, a timeout, an error status.
DeliveryFailed ==
  \/ obs.post.exc \in {"ConnectionError", "Timeout"}
  \/ obs.post.kind = "return" /\ obs.post.status_code \in 400..599

\* ---- C1: ticks are sequential, each in the order Sampling, Sending, Waiting:
\* a send starts only when the collect_metrics of its tick has completed, a
\* wait only when that send has completed, the next sampling only when the
\* wait has expired.
C1_TicksSequential ==
  /\ pc = "Sampling" => collects = sends /\ sends = sleeps
  /\ pc = "Sending" => collects = sends + 1 /\ sends = sleeps /\ probe_pc = "-"
  /\ pc = "Waiting" => collects = sends /\ sends = sleeps + 1
  /\ pc \in {"Sampling", "Sending", "Waiting"} /\ collects > 0 =>
       building.timestamp \in {collects, collects + 1}
  /\ posts > 0 => posted.timestamp = collects

C1_Witness ==
  pc = "Sampling" /\ probe_pc = "gpu" /\ collects = 2 /\ sends = 2 /\ sleeps = 2

\* ---- C2: a failed delivery is one POST attempt of the tick's snapshot,
\* send_metrics returns failure instead of raising, nothing is sent again, and
\* the loop goes on to the wait of interval seconds and to the next sampling.
C2_FailureContained ==
  /\ posts <= 1
  /\ posts = 1 => posted = metrics /\ posted.timestamp = collects
  /\ DeliveryFailed =>
       /\ posts = 1
       /\ send_result = Bool(FALSE)
       /\ \/ pc = "Waiting" /\ sleep_for = interval /\ run_exit = "running"
          \/ pc = "Sampling" /\ probe_pc = "timestamp" /\ run_exit = "running"
          \/ pc = "Stopped" /\ sig_at = "Waiting"

C2_Witness ==
  DeliveryFailed /\ pc = "Sampling" /\ probe_pc = "timestamp" /\ sleeps = 1

\* ---- C3: send_metrics reports success exactly when a response with a
\* status in 200..299 was received.
C3_SuccessIff2xx ==
  send_result # Unset =>
    (send_result = Bool(TRUE)
       <=> (obs.post.kind = "return" /\ obs.post.status_code \in 200..299))

\* ---- C4: a probe whose facility raises an error degrades its own field to
\* the absent marker only; the other probes are still called, collect_metrics
\* still returns, and nothing leaves the sampling loop.
C4_ProbesIsolated ==
  \A p \in Probes :
    FacilityFailed(p) =>
      /\ pc # "Crashed"
      /\ building[p] = Absent(p)

\* ---- C5: run sleeps max(0, interval - elapsed), elapsed being the time the
\* tick spent in collect_metrics and send_metrics.
C5_SleepCompensates ==
  pc = "Waiting" => sleep_for = Max(0, interval - elapsed)

\* ---- C6: a KeyboardInterrupt raised while run is sampling (in any probe),
\* sending or waiting stops the loop: run returns, the interrupt does not
\* leave it, and once stopped no probe is called and nothing is posted.
C6_GracefulStop ==
  /\ [](sig_at \in Probes \cup {"Sending", "Waiting"} =>
          pc = "Stopped" /\ run_exit = "returned")
  /\ [][pc = "Stopped" =>
          pc' = "Stopped" /\ probe_calls' = probe_calls /\ posts' = posts]_vars

C6_Witness == pc = "Stopped" /\ sig_at = "gpu" /\ run_exit = "returned"

\* ---- C10: a collect_metrics that returns has called each of the five
\* probes exactly once, and what send_metrics posts is the snapshot of that
\* tick as assembled, with its six fields.
C10_OneSnapshotPerTick ==
  /\ \A p \in Probes : probe_calls[p] <= 1
  /\ pc = "Sending" =>
       /\ \A p \in Probes : probe_calls[p] = 1 /\ building[p] # Unset
       /\ metrics.timestamp = collects
       /\ metrics.cpu_percent = building.cpu
       /\ metrics.gpu_percent = building.gpu
       /\ metrics.ram = building.ram
       /\ metrics.ping_ms = building.ping
       /\ metrics.internet_connected = building.net
  /\ posts > 0 =>
       /\ \A p \in Probes : probe_calls[p] = 1
       /\ posted = metrics
       /\ DOMAIN posted = {"timestamp", "cpu_percent", "gpu_percent", "ram",
                           "ping_ms", "internet_connected"}

C10_Witness ==
  /\ posts = 1
  /\ pc = "Waiting"
  /\ posted.gpu_percent = None
  /\ posted.ping_ms # None
  /\ posted.cpu_percent = Num(420, 1)

\* ---- numerals and latency tokens, as the claims read them

NumeralChars == Digits \cup {"."}

IsDigit(c) == c \in Digits

IsDot(c) == c = "."

\* Digits with at most one "." among them.
IsNumeral(u) ==
  /\ \A i \in 1..Len(u) : u[i] \in NumeralChars
  /\ Len(SelectSeq(u, IsDigit)) >= 1
  /\ Len(SelectSeq(u, IsDot)) <= 1

\* The number a numeral denotes.
NumeralValue(u) ==
  LET dot == {i \in 1..Len(u) : u[i] = "."}
      frac == IF dot = {} THEN 0 ELSE Len(u) - (CHOOSE i \in dot : TRUE)
  IN  Num(DigitsValue(SelectSeq(u, IsDigit)), frac)

RECURSIVE TakeNumeral(_)
TakeNumeral(s) ==
  IF s # <<>> /\ Head(s) \in NumeralChars
    THEN <<Head(s)>> \o TakeNumeral(Tail(s))
    ELSE <<>>

RECURSIVE SkipSpaces(_)
SkipSpaces(s) == IF s # <<>> /\ Head(s) = " " THEN SkipSpaces(Tail(s)) ELSE s

After(out, i) == SubSeq(out, i + 1, Len(out))

TimeTokens(out) == {i \in 1..Len(out) : out[i] = "time="}

\* "time=" at i is followed by a numeral, a space and the unit: time=23.4 ms
WellFormedAt(out, i) ==
  LET n == TakeNumeral(After(out, i))
      rest == After(out, i + Len(n))
  IN  IsNumeral(n) /\ Len(rest) >= 2 /\ rest[1] = " " /\ rest[2] = "ms"

\* "time=" at i is followed, after spaces if any, by a numeral.
ParsableAt(out, i) == IsNumeral(TakeNumeral(SkipSpaces(After(out, i))))

\* ---- C7: get_gpu_usage never raises; it returns a number only when the
\* tool ran on Windows or Linux, exited with status 0 in this call and
\* printed a numeral, and then that number; otherwise None.
C7_GpuNeverFabricates ==
  fn_out # NotAsked /\ fn_in.exc # Interrupt =>
    /\ fn_out.kind = "return"
    /\ IF /\ host_system \in {"Windows", "Linux"}
          /\ fn_in.kind = "return"
          /\ fn_in.returncode = 0
          /\ IsNumeral(Strip(fn_in.stdout))
         THEN fn_out.val = NumeralValue(Strip(fn_in.stdout))
         ELSE fn_out.val = None

C7_Witness ==
  /\ fn_out = Return(None)
  /\ host_system = "Linux"
  /\ fn_in.kind = "return"
  /\ fn_in.returncode = 1
  /\ fn_in.stdout = <<"7", "7", "\n">>

\* ---- C8: get_ping never raises; on both parse paths it returns the number
\* that follows the "time=" token when the output holds such tokens, each
\* with a number and its unit, and None on a timeout, a launch failure or an
\* output with no "time=" token that a number follows.
C8_PingParsesLatency ==
  fn_out # NotAsked /\ fn_in.exc # Interrupt =>
    /\ fn_out.kind = "return"
    /\ fn_in.kind = "raise" => fn_out.val = None
    /\ fn_in.kind = "return" =>
         LET out == fn_in.stdout
         IN  /\ (TimeTokens(out) # {}
                  /\ \A i \in TimeTokens(out) : WellFormedAt(out, i)) =>
                 \E i \in TimeTokens(out) :
                   fn_out.val = NumeralValue(TakeNumeral(After(out, i)))
             /\ (\A i \in TimeTokens(out) : ~ParsableAt(out, i)) =>
                 fn_out.val = None

\* ---- C9: two ticks of a run in which every probe observes the same host
\* state assemble snapshots equal in every field but timestamp, whatever
\* happened in between; api_url and interval never change.
SansTimestamp(snap) == [snap EXCEPT !.timestamp = 0]

====
